---- MODULE Spec2Model ----
(***************************************************************************)
(* The procedural forest of eniallator/Painting-Recreation: three          *)
(* iterations of one sketch.                                               *)
(*   "index"    src/packages/app/src/index.ts  (colour stops, leaves,      *)
(*              cached extents, distance-based spacing)                    *)
(*   "part_000" src/unnamed/part_000           (height-scaled drawing,     *)
(*              per-segment culling, time-based spacing)                   *)
(*   "part_001" src/unnamed/part_001           (pixel units, otherwise as  *)
(*              part_000)                                                  *)
(*                                                                         *)
(* Numbers.  The code computes in floating point; the model computes in    *)
(* fixed point on exact integers:                                          *)
(*   lengths and coordinates   units of 1e-5 of the unit space (Unit = 1.0);  *)
(*                             in part_001 hundredths of a pixel           *)
(*   times                     milliseconds                                *)
(*   xPercent                  units of 1e-5 (Unit = 100%)                 *)
(*   Math.random()             thousandths, 0..999                         *)
(*   fractions in [0,1]        exact pairs <<numerator, denominator>>      *)
(*   headings                  steps of 15 degrees, clockwise from UP      *)
(* Vector.UP is (0,-1): the canvas y axis points down and y = 0 is the     *)
(* ground line the trees stand on.                                         *)
(*                                                                         *)
(* Math.random() is a seeded stream.  The model's stream state is `rng`,   *)
(* an index into Seeds: one createTree call consumes the draws of one      *)
(* seed (grouped by the call site that consumes them) and advances rng.    *)
(***************************************************************************)
EXTENDS Integers, Sequences, FiniteSets, TLC

VARIABLES variant, width, height, now, rng, stateTrees, trees,
          genBudget, genInitial, genLength, genDepth, genPhase

vars == <<variant, width, height, now, rng, stateTrees, trees,
          genBudget, genInitial, genLength, genDepth, genPhase>>

frameVars == <<variant, width, height, now, rng, stateTrees, trees>>
genVars == <<genBudget, genInitial, genLength, genDepth, genPhase>>

(***************************************************************************)
(* Fixed-point helpers                                                     *)
(***************************************************************************)
Unit == 100 * 1000
Mille == 10 * 100

Min(a, b) == IF a < b THEN a ELSE b
Max(a, b) == IF a > b THEN a ELSE b
Abs(a) == IF a < 0 THEN 0 - a ELSE a

\* Math.ceil(a / b) for a >= 0, b > 0
Ceil(a, b) == (a + b - 1) \div b

\* Math.floor(sqrt(num / den)) in thousandths
SqrtMille(num, den) ==
  LET q == (Mille * Mille * num) \div den
  IN  CHOOSE s \in 0..4000 : s * s <= q /\ (s + 1) * (s + 1) > q

\* the k-th draw of a call site: the site's draws repeat cyclically
At(s, k) == s[(k % Len(s)) + 1]

\* randRange(min, max) of @web-art/core on the draw r: min + r * (max - min)
RandRange(lo, hi, r) == lo + (r * (hi - lo)) \div Mille

Last(s) == s[Len(s)]

(***************************************************************************)
(* Vectors on the heading grid                                             *)
(***************************************************************************)
Vec(x, y) == [x |-> x, y |-> y]
VecZero == Vec(0, 0)
VecDown == Vec(0, Unit)

\* sin of 0, 15, .. 90 degrees in thousandths
SinTab == <<0, 259, 500, 707, 866, 966, 1000>>

Sin(h) ==
  LET a == h % 24
  IN  IF a <= 6 THEN SinTab[a + 1]
      ELSE IF a <= 12 THEN SinTab[12 - a + 1]
      ELSE IF a <= 18 THEN 0 - SinTab[a - 12 + 1]
      ELSE 0 - SinTab[24 - a + 1]

Cos(h) == Sin(h + 6)

\* a heading brought into -11..12
NormHeading(h) == LET a == h % 24 IN IF a > 12 THEN a - 24 ELSE a

\* round(a / b) to the nearest integer, b > 0
RoundDiv(a, b) == IF a >= 0 THEN (2 * a + b) \div (2 * b) ELSE 0 - ((2 * (0 - a) + b) \div (2 * b))

\* start + (unit vector of heading h).setMagnitude(length)
Advance(start, h, length) ==
  Vec(start.x + RoundDiv(length * Sin(h), Mille), start.y - RoundDiv(length * Cos(h), Mille))

\* Vector.lerp(a, b, t) with t = <<num, den>>
VecLerp(a, b, t) ==
  Vec(a.x + RoundDiv((b.x - a.x) * t[1], t[2]), a.y + RoundDiv((b.y - a.y) * t[1], t[2]))

\* The heading of from.lerp(to, t) for unit vectors at headings `from` and `to`
\* (t in thousandths): the turn from `from` towards `to`, in proportion to t.
LerpHeading(from, to, t) == NormHeading(from + RoundDiv(NormHeading(to - from) * t, Mille))

(***************************************************************************)
(* index.ts: constants                                                     *)
(***************************************************************************)
viewShiftSpeed == 30            \* 0.03, thousandths per second
branchChance == 100             \* 0.1, thousandths
maxBranches == 2
maxGrowth == Unit               \* 1
growthPerSecond == 4000         \* 0.04
minSegmentLength == 6000        \* 0.06
maxSegmentLength == 12000       \* 0.12
maxAngleOffset == 2             \* Math.PI / 6 = 30 degrees, in heading steps
preferredDirInfluence == 500    \* 0.5, thousandths
treeSpacingMultiplier == 250    \* 0.25, thousandths
colorSize == 3000               \* 0.03
treePaletteSize == 7
maxRadiusMultiplier == 4000     \* 0.04
minLeafDistFromEnd == 10000     \* 0.1
maxLeafDistFromEnd == 25000     \* 0.25
leafSpacingMin == 1000          \* 0.01
leafSpacingMax == 3000          \* 0.03
leafFallSpeed == 2
leafSidewaysFallOffset == 3000  \* 0.03
leafWidthMultiplier == 1000     \* 0.01

\* Vector.UP, and the headings of Vector.RIGHT and Vector.LEFT
HeadingUp == 0 * 1
HeadingRight == 6 * 1
HeadingLeft == 0 - 6

(***************************************************************************)
(* index.ts: createSegment                                                 *)
(***************************************************************************)
\* The stub parent createTree passes for the root: DOWN -> origin, heading UP.
StubParent ==
  [start |-> VecDown, end |-> VecZero, heading |-> HeadingUp, length |-> Unit,
   maxLeafDist |-> 0, colorStops |-> <<>>, leaves |-> <<>>, children |-> <<>>]

ColorStopOffsetUnflipped(parent) ==
  IF parent.colorStops = <<>> THEN 0
  ELSE LET stop == Last(parent.colorStops).offset
       IN  (parent.length * stop[1]) \div stop[2]

\* parent.length * (1 - lastParentColorStop[0]), or 0 without a parent stop
ColorStopOffset(parent) ==
  IF parent.colorStops = <<>> THEN 0
  ELSE LET stop == Last(parent.colorStops).offset
       IN  (parent.length * (stop[2] - stop[1])) \div stop[2]

\* new Array(ceil((length - colorStopOffset) / colorSize)).map((_, i) => ...)
ColorStops(length, colorStopOffset, seed, k) ==
  [i \in 1..Ceil(length - colorStopOffset, colorSize) |->
     [offset |-> <<(i - 1) * colorSize + colorStopOffset, length>>,
      color |-> (At(seed.color, k + i) * treePaletteSize) \div Mille]]

\* the initial lastLeafOffset: (lastParentLeaf.segmentPercent - 1) * parent.length
FirstLeafOffset(parent) ==
  IF parent.leaves = <<>> THEN 0
  ELSE LET sp == Last(parent.leaves).segmentPercent
       IN  ((sp[1] - sp[2]) * parent.length) \div sp[2]

\* the while loop that places the leaves of one segment
RECURSIVE PlaceLeaves(_, _, _, _, _, _, _)
PlaceLeaves(leaves, lastLeafOffset, length, start, end, seed, k) ==
  IF ~(length > lastLeafOffset + (leafSpacingMin + leafSpacingMax) \div 2) THEN leaves
  ELSE LET j == Len(leaves)
           segmentOffset ==
             Min(lastLeafOffset + RandRange(leafSpacingMin, leafSpacingMax, At(seed.leafGap, k + j)),
                 length)
           leaf == [segmentPercent |-> <<segmentOffset, length>>,
                    pos |-> VecLerp(start, end, <<segmentOffset, length>>),
                    distFromEnd |->
                      RandRange(minLeafDistFromEnd, maxLeafDistFromEnd, At(seed.leafDist, k + j))]
       IN  PlaceLeaves(Append(leaves, leaf), segmentOffset, length, start, end, seed, k)

\* maxAngleOffset * (2 * Math.random() - 1)
AngleOffset(r) == RoundDiv(maxAngleOffset * (2 * r - Mille), Mille)

\* Math.pow(Math.random(), 1 / preferredDirInfluence), in thousandths
LerpWeight(r) == IF preferredDirInfluence = 500 THEN (r * r) \div Mille ELSE r

SegmentHeading(parent, preferredDir, seed, k) ==
  LerpHeading(NormHeading(AngleOffset(At(seed.turn, k)) + parent.heading),
              preferredDir, LerpWeight(At(seed.blend, k)))

SegmentStartAtParentStart(parent) == parent.start

\* const start = parent.end
SegmentStart(parent) == parent.end

createSegment(parent, preferredDir, seed, k) ==
  LET length == RandRange(minSegmentLength, maxSegmentLength, At(seed.len, k))
      colorStopOffset == ColorStopOffset(parent)
      start == SegmentStart(parent)
      heading == SegmentHeading(parent, preferredDir, seed, k)
      end == Advance(start, heading, length)
  IN  [start |-> start, end |-> end, heading |-> heading, length |-> length,
       maxLeafDist |-> length,
       leaves |-> PlaceLeaves(<<>>, FirstLeafOffset(parent), length, start, end, seed, k),
       colorStops |-> ColorStops(length, colorStopOffset, seed, k),
       children |-> <<>>]

(***************************************************************************)
(* index.ts: createSegmentsRecursive, createTree                           *)
(***************************************************************************)
\* 1 + the number of the maxBranches draws below branchChance
NumBranches(seed, k) ==
  1 + Cardinality({i \in 0..(maxBranches - 1) : At(seed.branch, maxBranches * k + i) < branchChance})

\* parent.end.x() > parent.start.x() ? Vector.RIGHT : Vector.LEFT
ParentDir(parent) == IF parent.end.x > parent.start.x THEN HeadingRight ELSE HeadingLeft

\* Math.random() ** 0.25, in thousandths
FourthRoot(r) == SqrtMille(SqrtMille(r, Mille), Mille)

\* the heading of Vector.UP.lerp(parentDir, Math.random() ** 0.25)
BranchPreferredDir(parent, r) == LerpHeading(HeadingUp, ParentDir(parent), FourthRoot(r))

ChildGrowthUndiminished(budget, length, i) ==
  IF i = 0 THEN budget ELSE (budget * 4) \div 10

\* the growth budget handed to child i of a segment of this length
ChildGrowth(budget, length, i) ==
  IF i = 0 THEN budget - length ELSE ((budget - length) * 4) \div 10

\* a segment longer than its budget is a tip
IsTip(length, budget) == length > budget

\* the draw index of child i of the segment with draw index k
ChildKey(k, i) == k + 1 + 3 * i

MinOverContinuation(f) == f[1]

MinOver(f) == CHOOSE m \in {f[i] : i \in DOMAIN f} : \A i \in DOMAIN f : m <= f[i]
MaxOver(f) == CHOOSE m \in {f[i] : i \in DOMAIN f} : \A i \in DOMAIN f : m >= f[i]

RECURSIVE createSegmentsRecursive(_, _, _, _, _)
createSegmentsRecursive(parent, budget, preferredDir, seed, k) ==
  LET segment == createSegment(parent, preferredDir, seed, k)
      minX == Min(segment.start.x, segment.end.x)
      maxX == Max(segment.start.x, segment.end.x)
  IN  IF IsTip(segment.length, budget)
      THEN [segment |-> segment, minX |-> minX, maxX |-> maxX]
      ELSE LET children ==
                 [c \in 1..NumBranches(seed, k) |->
                    createSegmentsRecursive(
                      segment,
                      ChildGrowth(budget, segment.length, c - 1),
                      IF c = 1 THEN preferredDir
                      ELSE BranchPreferredDir(parent, At(seed.prefer, k + c)),
                      seed, ChildKey(k, c - 1))]
           IN  [segment |->
                  [segment EXCEPT
                     !.children = [c \in DOMAIN children |-> children[c].segment],
                     !.maxLeafDist =
                       segment.maxLeafDist
                       + Max(0, MaxOver([c \in DOMAIN children |-> children[c].segment.maxLeafDist]))],
                minX |-> Min(minX, MinOver([c \in DOMAIN children |-> children[c].minX])),
                maxX |-> Max(maxX, MaxOver([c \in DOMAIN children |-> children[c].maxX]))]

\* maxGrowth * (1 - Math.random() * 0.2)
InitialGrowth(r) == maxGrowth - (maxGrowth * r) \div (5 * Mille)

xPadding == maxRadiusMultiplier + leafSidewaysFallOffset + leafWidthMultiplier

createTree(created, xPercent, seed) ==
  LET made == createSegmentsRecursive(StubParent, InitialGrowth(seed.growth), HeadingUp, seed, 0)
  IN  [created |-> created, xPercent |-> xPercent, root |-> made.segment,
       minX |-> made.minX - xPadding, maxX |-> made.maxX + xPadding]

(***************************************************************************)
(* The random stream: the draws one createTree call consumes, by call site *)
(* (thousandths).  growth: the initial budget; len: segment lengths; turn: *)
(* angle offsets; blend: lerp weights towards the preferred direction;     *)
(* branch: the branchChance draws; prefer: the branch directions; leafGap, *)
(* leafDist: leaf spacing and fall trigger; color: palette choices.        *)
(***************************************************************************)
Seeds ==
  << \* tall and upright, no branches
     [growth |-> 0, len |-> <<990, 500>>, turn |-> <<500>>, blend |-> <<0>>,
      branch |-> <<500>>, prefer |-> <<500>>, leafGap |-> <<900, 700>>,
      leafDist |-> <<0, 600>>, color |-> <<0, 300, 600, 900>>],
     \* leaning left, one side branch near the root
     [growth |-> 500, len |-> <<250, 990, 0>>, turn |-> <<250>>, blend |-> <<700>>,
      branch |-> <<50, 500, 500, 500, 500, 500, 500, 500, 500, 500, 500, 500, 500, 500, 500, 500, 500>>,
      prefer |-> <<900>>, leafGap |-> <<500>>,
      leafDist |-> <<200>>, color |-> <<150, 450, 750>>],
     \* curling over to the right until it grows downwards, below the ground line
     [growth |-> 0, len |-> <<0>>, turn |-> <<750>>, blend |-> <<100>>,
      branch |-> <<500>>, prefer |-> <<500>>, leafGap |-> <<990>>,
      leafDist |-> <<0>>, color |-> <<100, 800>>],
     \* leaning right, branching twice at the second segment
     [growth |-> 990, len |-> <<500, 0, 990>>, turn |-> <<750, 500, 250, 750>>, blend |-> <<600, 300>>,
      branch |-> <<500, 500, 50, 50, 500, 500, 500, 500, 500, 500, 500, 500, 500, 500, 500, 500, 500, 500, 500>>,
      prefer |-> <<100, 900>>, leafGap |-> <<800, 200>>,
      leafDist |-> <<100, 990>>, color |-> <<500, 0, 999>>] >>

(***************************************************************************)
(* part_000 and part_001: constants, createSegment .. createTree           *)
(* The two files differ in their constants and in the height scaling of    *)
(* the drawing; K(v) holds the constants of variant v.  coordPerPixel is   *)
(* the model's scale between a tree coordinate and 1e-5 of a pixel when    *)
(* the code adds the two unscaled.                                         *)
(***************************************************************************)
K(v) ==
  IF v = "part_000"
  THEN [maxGrowth |-> Unit, growthPerSecond |-> 6000, minSegmentLength |-> 6000,
        maxSegmentLength |-> 12000, treesOnScreen |-> 10, viewShiftSpeed |-> 30,
        coordPerPixel |-> 1]
  ELSE [maxGrowth |-> 50000, growthPerSecond |-> 3000, minSegmentLength |-> 3000,
        maxSegmentLength |-> 6000, treesOnScreen |-> 10, viewShiftSpeed |-> 10,
        coordPerPixel |-> 1000]

StubParentOld == [start |-> VecDown, end |-> VecZero, heading |-> HeadingUp, children |-> <<>>]

\* `length` holds start.distTo(end), the magnitude the segment was given
createSegmentOld(v, parent, preferredDir, seed, k) ==
  LET length == RandRange(K(v).minSegmentLength, K(v).maxSegmentLength, At(seed.len, k))
      heading == SegmentHeading(parent, preferredDir, seed, k)
  IN  [start |-> SegmentStart(parent), end |-> Advance(parent.end, heading, length),
       heading |-> heading, length |-> length, children |-> <<>>]

RECURSIVE createSegmentsRecursiveOld(_, _, _, _, _, _)
createSegmentsRecursiveOld(v, parent, budget, preferredDir, seed, k) ==
  LET segment == createSegmentOld(v, parent, preferredDir, seed, k)
  IN  IF IsTip(segment.length, budget) THEN segment
      ELSE [segment EXCEPT !.children =
              [c \in 1..NumBranches(seed, k) |->
                 createSegmentsRecursiveOld(
                   v, segment, ChildGrowth(budget, segment.length, c - 1),
                   IF c = 1 THEN preferredDir
                   ELSE BranchPreferredDir(parent, At(seed.prefer, k + c)),
                   seed, ChildKey(k, c - 1))]]

createTreeOld(v, created, xPercent, seed) ==
  [created |-> created, xPercent |-> xPercent,
   root |-> createSegmentsRecursiveOld(
              v, StubParentOld, K(v).maxGrowth - (K(v).maxGrowth * seed.growth) \div (5 * Mille),
              HeadingUp, seed, 0)]

(***************************************************************************)
(* index.ts: drawSegmentRecursive.  The canvas calls of one tree are a set *)
(* of strokes, one per visited segment:                                    *)
(*   path      the child indices from the root to the segment              *)
(*   age       the age the call received                                   *)
(*   growth    Math.min(1, baseGrowth): the lerp weight of the stroke end  *)
(*   to        the stroke end, before multiply(scale).add(offset)          *)
(*   gradient  the addColorStop calls, in order                            *)
(*   leaves    the leaves drawn: leaf index, distFromEnd > 0 (attached),   *)
(*             leafYPos, and y, the height the leaf is drawn from before   *)
(*             the sway terms are added and before the clamp to the ground *)
(***************************************************************************)
\* the `parent` of the call animationFrame makes for a root: undefined
NoParent == [colorStops |-> <<>>]

timeToGrow(length) == (length * Mille) \div growthPerSecond

MaxGrowthAgeBeyond(segment, age) ==
  Min(age, ((segment.maxLeafDist - segment.length) * Mille) \div growthPerSecond)

\* Math.min(age, segment.maxLeafDist / growthPerSecond)
MaxGrowthAge(segment, age) == Min(age, (segment.maxLeafDist * Mille) \div growthPerSecond)

\* Math.min(1, baseGrowth) with baseGrowth = maxGrowthAge / timeToGrow
Growth(segment, age) ==
  IF MaxGrowthAge(segment, age) >= timeToGrow(segment.length) THEN <<1, 1>>
  ELSE <<MaxGrowthAge(segment, age), timeToGrow(segment.length)>>

Gradient(segment, parent) ==
  LET stops == segment.colorStops
      n == Len(stops)
      continuation ==
        IF parent.colorStops /= <<>> /\ n > 0 /\ stops[1].offset[1] > 0
        THEN << [offset |-> stops[1].offset, color |-> Last(parent.colorStops).color] >>
        ELSE <<>>
      own == [m \in 1..(IF n = 0 THEN 0 ELSE 2 * n - 1) |->
                IF m % 2 = 1 THEN [offset |-> stops[(m + 1) \div 2].offset, color |-> stops[(m + 1) \div 2].color]
                ELSE [offset |-> stops[m \div 2 + 1].offset, color |-> stops[m \div 2].color]]
  IN  continuation \o own

\* leaf.segmentPercent * segment.length
LeafOffset(leaf, segment) == (leaf.segmentPercent[1] * segment.length) \div leaf.segmentPercent[2]

\* the local distFromEnd of the leaf loop
LeafDistFromEnd(leaf, segment, age) ==
  LeafOffset(leaf, segment)
  - (Min(segment.maxLeafDist, (age * growthPerSecond) \div Mille) - leaf.distFromEnd)

leafYPos(leaf, segment, age) ==
  Min(leaf.pos.y
      - (LeafOffset(leaf, segment) - ((age * growthPerSecond) \div Mille - leaf.distFromEnd)) * leafFallSpeed,
      0)

\* leaf.segmentPercent <= baseGrowth
LeafShown(leaf, segment, age) ==
  leaf.segmentPercent[1] * timeToGrow(segment.length)
    <= MaxGrowthAge(segment, age) * leaf.segmentPercent[2]

DrawLeaves(segment, age) ==
  { [leaf |-> j,
     attached |-> LeafDistFromEnd(segment.leaves[j], segment, age) > 0,
     leafYPos |-> leafYPos(segment.leaves[j], segment, age),
     y |-> IF LeafDistFromEnd(segment.leaves[j], segment, age) > 0
           THEN segment.leaves[j].pos.y
           ELSE leafYPos(segment.leaves[j], segment, age)]
    : j \in {i \in DOMAIN segment.leaves : LeafShown(segment.leaves[i], segment, age)} }

\* age > timeToGrow: the children are visited
VisitsChildren(segment, age) == age > timeToGrow(segment.length)

ChildAgeUnreduced(segment, age) == age

\* the age handed to the children
ChildAge(segment, age) == age - timeToGrow(segment.length)

RECURSIVE drawSegmentRecursive(_, _, _, _)
drawSegmentRecursive(segment, parent, age, path) ==
  { [path |-> path, age |-> age, growth |-> Growth(segment, age),
     to |-> VecLerp(segment.start, segment.end, Growth(segment, age)),
     gradient |-> Gradient(segment, parent),
     leaves |-> DrawLeaves(segment, age)] }
  \cup
  (IF VisitsChildren(segment, age)
   THEN UNION { drawSegmentRecursive(segment.children[c], segment, ChildAge(segment, age), Append(path, c))
                : c \in DOMAIN segment.children }
   ELSE {})

\* the strokes animationFrame draws for a tree at time.now = time
DrawTree(tree, time) == drawSegmentRecursive(tree.root, NoParent, time - tree.created, <<>>)

(***************************************************************************)
(* part_000, part_001: drawSegmentRecursive.  A stroke: path, age, growth  *)
(* (1 or age / timeToGrow) and the lineTo point `to`, before the scaling.  *)
(***************************************************************************)
timeToGrowOld(v, length) == (length * Mille) \div K(v).growthPerSecond

\* timeToGrow <= age: the full line is drawn and the children are visited
FullyGrownOld(v, segment, age) == timeToGrowOld(v, segment.length) <= age

ChildAgeOld(v, segment, age) == age - timeToGrowOld(v, segment.length)

GrowthOld(v, segment, age) ==
  IF FullyGrownOld(v, segment, age) THEN <<1, 1>> ELSE <<age, timeToGrowOld(v, segment.length)>>

RECURSIVE drawSegmentRecursiveOld(_, _, _, _)
drawSegmentRecursiveOld(v, segment, age, path) ==
  { [path |-> path, age |-> age, growth |-> GrowthOld(v, segment, age),
     to |-> VecLerp(segment.start, segment.end, GrowthOld(v, segment, age))] }
  \cup
  (IF FullyGrownOld(v, segment, age)
   THEN UNION { drawSegmentRecursiveOld(v, segment.children[c], ChildAgeOld(v, segment, age), Append(path, c))
                : c \in DOMAIN segment.children }
   ELSE {})

DrawTreeOld(v, tree, time) == drawSegmentRecursiveOld(v, tree.root, time - tree.created, <<>>)

\* the canvas x of a tree coordinate: yScale * x + offset.x() in part_000 (yScale =
\* height * 0.8), x + offset.x() in part_001; in 1e-5 of a pixel
CanvasXOld(v, x, tree) ==
  (IF v = "part_000" THEN ((height * 8) \div 10) * x ELSE K(v).coordPerPixel * x) + width * tree.xPercent

(***************************************************************************)
(* The frame drivers                                                       *)
(***************************************************************************)
MaxTime == 60000

\* time.delta of a frame, in milliseconds
Deltas == {4000, 36000}

\* the canvases: variant, width, height
Canvases ==
  { <<"index", 80, 500>>, <<"index", 320, 500>>, <<"part_000", 400, 500>>, <<"part_001", 800, 600>> }

SeedAt(r) == Seeds[((r - 1) % Len(Seeds)) + 1]

\* ---- index.ts ----
\* init: floor(width / (height * treeSpacingMultiplier)) trees, spread over the width
InitCount(w, h) == (w * Mille) \div (h * treeSpacingMultiplier)

InitTrees(w, h, time, r) ==
  LET n == InitCount(w, h)
  IN  [i \in 1..n |->
         createTree(time - ((n - i) * ((maxGrowth * Mille) \div growthPerSecond)) \div (n - 1),
                    ((i - 1) * Unit) \div (n - 1), SeedAt(r + i - 1))]

ShouldSpawnNonEmpty(list) ==
  /\ list /= <<>>
  /\ width * (Unit - Last(list).xPercent) > height * treeSpacingMultiplier * (Unit \div Mille)

\* lastTree == null || width * (1 - lastTree.xPercent) > height * treeSpacingMultiplier
ShouldSpawn(list) ==
  \/ list = <<>>
  \/ width * (Unit - Last(list).xPercent) > height * treeSpacingMultiplier * (Unit \div Mille)

\* const scale = dimensions.y() * 0.8
Scale == (height * 8) \div 10

\* (dimensions.x() / dimensions.y()) ** 0.5, in thousandths
AspectRatioSqrt == SqrtMille(width, height)

\* viewShiftSpeed * aspectRatioSqrt * delta * 4 * treeSpacingMultiplier / (width / height)
Shift(delta) ==
  LET perSecond == (((viewShiftSpeed * AspectRatioSqrt * 4 * treeSpacingMultiplier) \div Mille) * height) \div width
  IN  ((perSecond \div 100) * delta) \div 100

Shifted(list, delta) == [i \in DOMAIN list |-> [list[i] EXCEPT !.xPercent = @ - Shift(delta)]]

InViewUnscaled(tree) ==
  /\ tree.minX + width * tree.xPercent <= width * Unit
  /\ tree.maxX + width * tree.xPercent > 0

\* the filter of animationFrame: the cached extents meet the visible range
InView(tree) ==
  /\ tree.minX * Scale + width * tree.xPercent <= width * Unit
  /\ tree.maxX * Scale + width * tree.xPercent > 0

AnimationFrame(delta) ==
  /\ variant = "index"
  /\ now + delta <= MaxTime
  /\ now' = now + delta
  /\ \E spawn \in {ShouldSpawn(trees)}, seed \in {SeedAt(rng)}, time \in {now + delta} :
       \E pushed \in {IF spawn THEN Append(trees, createTree(time, Unit, seed)) ELSE trees} :
         /\ stateTrees' = pushed
         /\ rng' = IF spawn THEN (rng % Len(Seeds)) + 1 ELSE rng
         /\ trees' = SelectSeq(Shifted(pushed, delta), InView)
  /\ UNCHANGED <<variant, width, height>>
  /\ UNCHANGED genVars

\* ---- part_000, part_001 ----
InitTreesOld(v, time, r) ==
  LET n == K(v).treesOnScreen
  IN  [i \in 1..n |->
         createTreeOld(v, time - ((n - i) * ((K(v).maxGrowth * Mille) \div K(v).growthPerSecond)) \div (n - 1),
                       ((i - 1) * Unit) \div (n - 1), SeedAt(r + i - 1))]

\* lastTree != null && time.now - lastTree.created > 1 / (treesOnScreen * viewShiftSpeed)
ShouldSpawnOld(v, list, time) ==
  /\ list /= <<>>
  /\ (time - Last(list).created) * K(v).treesOnScreen * K(v).viewShiftSpeed > Mille * Mille

\* viewShiftSpeed * time.delta
ShiftOld(v, delta) == (K(v).viewShiftSpeed * delta) \div 10

RECURSIVE checkSegmentsInBounds(_, _, _)
checkSegmentsInBounds(v, segment, xOffset) ==
  \/ segment.start.x * K(v).coordPerPixel + xOffset > 0
  \/ segment.end.x * K(v).coordPerPixel + xOffset > 0
  \/ \E c \in DOMAIN segment.children : checkSegmentsInBounds(v, segment.children[c], xOffset)

InBoundsOld(tree) == checkSegmentsInBounds(variant, tree.root, width * tree.xPercent)

FrameOld(v, delta) ==
  /\ now + delta <= MaxTime
  /\ now' = now + delta
  /\ \E seed \in {SeedAt(rng)}, time \in {now + delta} :
     \E spawn \in {ShouldSpawnOld(v, trees, time)} :
     \E pushed \in {IF spawn THEN Append(trees, createTreeOld(v, time, Unit, seed)) ELSE trees} :
         /\ stateTrees' = pushed
         /\ rng' = IF spawn THEN (rng % Len(Seeds)) + 1 ELSE rng
         /\ trees' = SelectSeq([i \in DOMAIN pushed |-> [pushed[i] EXCEPT !.xPercent = @ - ShiftOld(v, delta)]],
                               InBoundsOld)
  /\ UNCHANGED <<variant, width, height>>
  /\ UNCHANGED genVars

AnimationFrame_part_000(delta) == variant = "part_000" /\ FrameOld("part_000", delta)

AnimationFrame_part_001(delta) == variant = "part_001" /\ FrameOld("part_001", delta)

GenIdle ==
  /\ genBudget = 0
  /\ genInitial = 0
  /\ genLength = 0
  /\ genDepth = 0
  /\ genPhase = "idle"

Init ==
  /\ now = 0
  /\ \E c \in Canvases, r \in 1..Len(Seeds) :
        /\ variant = c[1]
        /\ width = c[2]
        /\ height = c[3]
        /\ stateTrees = IF c[1] = "index" THEN InitTrees(c[2], c[3], 0, r)
                        ELSE InitTreesOld(c[1], 0, r)
        /\ rng = ((r + Len(stateTrees) - 1) % Len(Seeds)) + 1
  /\ trees = stateTrees
  /\ GenIdle

Next ==
  \E delta \in Deltas :
    \/ AnimationFrame(delta)
    \/ AnimationFrame_part_000(delta)
    \/ AnimationFrame_part_001(delta)

Spec == Init /\ [][Next]_vars

\* the time step of a frame: every animationFrame step is one
FramePasses == \E delta \in Deltas : now + delta <= MaxTime /\ now' = now + delta

\* the host calls animationFrame again after every frame
SpecLive == Init /\ [][Next]_vars /\ WF_now(FramePasses)

(***************************************************************************)
(* createSegmentsRecursive, one call at a time.  The recursion is followed *)
(* down one root-to-tip path; which child the path enters is free, so the  *)
(* paths cover every call of every tree.                                   *)
(*   genInitial  the budget createTree passed to the first call            *)
(*   genBudget   the maxGrowth argument of the current call                *)
(*   genLength   the length of the segment the last call created           *)
(*   genDepth    the number of calls above the current one                 *)
(*   genPhase    "call" while a call is to run, "done" once a call has     *)
(*               returned without recursing                                *)
(***************************************************************************)
MaxGenDepth == 20

\* Math.random() at the call sites of the recursion, in thousandths
GenDraws == {0, 500, 999}

\* Math.random() < branchChance, one draw per possible extra branch
GenBranchDraws == {50, 500}

GenMaxGrowth == IF variant = "index" THEN maxGrowth ELSE K(variant).maxGrowth

GenMinLength == IF variant = "index" THEN minSegmentLength ELSE K(variant).minSegmentLength

GenMaxLength == IF variant = "index" THEN maxSegmentLength ELSE K(variant).maxSegmentLength

\* createTree: the first call gets maxGrowth * (1 - Math.random() * 0.2)
InitGen ==
  /\ variant \in {"index", "part_000", "part_001"}
  /\ width = 0
  /\ height = 0
  /\ now = 0
  /\ rng = 1
  /\ stateTrees = <<>>
  /\ trees = <<>>
  /\ \E r \in GenDraws : genInitial = GenMaxGrowth - (GenMaxGrowth * r) \div (5 * Mille)
  /\ genBudget = genInitial
  /\ genLength = 0
  /\ genDepth = 0
  /\ genPhase = "call"

\* a call whose segment is longer than the budget returns it without children
GenReturn(r) ==
  /\ genPhase = "call"
  /\ \E length \in {RandRange(GenMinLength, GenMaxLength, r)} :
       /\ IsTip(length, genBudget)
       /\ genLength' = length
  /\ genPhase' = "done"
  /\ UNCHANGED <<genBudget, genInitial, genDepth>>
  /\ UNCHANGED frameVars

\* a call whose segment fits the budget draws its branches and calls itself
\* for each child; the path enters child i
GenRecurse(r, b1, b2, i) ==
  /\ genPhase = "call"
  /\ genDepth < MaxGenDepth
  /\ \E length \in {RandRange(GenMinLength, GenMaxLength, r)} :
       /\ ~IsTip(length, genBudget)
       /\ i < 1 + Cardinality({b \in {<<1, b1>>, <<2, b2>>} : b[2] < branchChance})
       /\ genLength' = length
       /\ genBudget' = ChildGrowth(genBudget, length, i)
  /\ genDepth' = genDepth + 1
  /\ UNCHANGED <<genInitial, genPhase>>
  /\ UNCHANGED frameVars

NextGen ==
  \E r \in GenDraws :
    \/ GenReturn(r)
    \/ \E b1 \in GenBranchDraws, b2 \in GenBranchDraws, i \in 0..maxBranches :
         GenRecurse(r, b1, b2, i)

\* a call that has been entered runs: the recursion is synchronous code
SpecGen == InitGen /\ [][NextGen]_vars /\ WF_vars(NextGen)

(***************************************************************************)
(* Reading a tree                                                          *)
(***************************************************************************)
\* every segment below (and including) `segment`, each with its generating parent
RECURSIVE Family(_, _)
Family(segment, parent) ==
  { [segment |-> segment, parent |-> parent] }
  \cup UNION { Family(segment.children[c], segment) : c \in DOMAIN segment.children }

\* the segments of the live trees with their parents; a root's parent is the stub
LiveFamilies ==
  UNION { UNION { Family(tree.root, IF variant = "index" THEN StubParent ELSE StubParentOld)
                  : tree \in {trees[i]} }
          : i \in DOMAIN trees }

\* the segment a stroke's path leads to
RECURSIVE SegmentAt(_, _)
SegmentAt(segment, path) ==
  IF path = <<>> THEN segment ELSE SegmentAt(segment.children[path[1]], Tail(path))

IsPrefix(p, q) == Len(p) <= Len(q) /\ SubSeq(q, 1, Len(p)) = p

\* the strokes the frame at time.now = now draws for a tree
TreeStrokes(tree) ==
  IF variant = "index" THEN DrawTree(tree, now) ELSE DrawTreeOld(variant, tree, now)

\* growthPerSecond of the running variant
GrowthRate == IF variant = "index" THEN growthPerSecond ELSE K(variant).growthPerSecond

Between(a, b, c) == (a <= b /\ b <= c) \/ (c <= b /\ b <= a)

(***************************************************************************)
(* C1.  index.ts animationFrame: after the scroll shift of a frame, a tree *)
(* of the list (the new one included) is kept if and only if               *)
(* minX * scale + width * xPercent <= width and                            *)
(* maxX * scale + width * xPercent > 0, with scale = 0.8 * height; the     *)
(* kept trees stay in their order.                                         *)
(***************************************************************************)
C1_Visible(tree) ==
  /\ tree.minX * ((8 * height) \div 10) + width * tree.xPercent <= width * Unit
  /\ tree.maxX * ((8 * height) \div 10) + width * tree.xPercent > 0

C1_KeptIffVisible ==
  [][variant = "index" =>
       \E shifted \in {Shifted(stateTrees', now' - now)} :
         /\ trees' = SelectSeq(shifted, C1_Visible)
         /\ \A i \in DOMAIN shifted :
              (\E j \in DOMAIN trees' : trees'[j] = shifted[i]) <=> C1_Visible(shifted[i])]_vars

\* a frame has culled a tree and kept another
C1_Witness ==
  /\ variant = "index"
  /\ trees /= <<>>
  /\ Len(trees) < Len(stateTrees)

(***************************************************************************)
(* C8.  index.ts animationFrame: a frame appends at most one tree, and it  *)
(* appends one exactly when the list is empty or                           *)
(* width * (1 - lastTree.xPercent) > height * treeSpacingMultiplier; the   *)
(* new tree is last in the list, at xPercent 1 (before the shift of that   *)
(* frame) and created at the current time.                                 *)
(***************************************************************************)
C8_SpawnDue ==
  \/ Len(trees) = 0
  \/ 4 * width * (Unit - trees[Len(trees)].xPercent) > height * Unit

C8_SpawnRule ==
  [][variant = "index" =>
       /\ Len(stateTrees') \in {Len(trees), Len(trees) + 1}
       /\ SubSeq(stateTrees', 1, Len(trees)) = trees
       /\ (Len(stateTrees') = Len(trees) + 1) <=> C8_SpawnDue
       /\ Len(stateTrees') = Len(trees) + 1 =>
            /\ stateTrees'[Len(stateTrees')].xPercent = Unit
            /\ stateTrees'[Len(stateTrees')].created = now']_vars

\* a frame has appended a tree behind a tree that had scrolled in far enough
C8_Witness ==
  /\ variant = "index"
  /\ now > 0
  /\ Len(stateTrees) >= 2
  /\ stateTrees[Len(stateTrees)].created = now
  /\ stateTrees[Len(stateTrees)].xPercent = Unit

(***************************************************************************)
(* C6.  In every variant each segment of each live tree starts where its   *)
(* generating parent ends; a root starts at the end of the stub parent,    *)
(* the origin.                                                             *)
(***************************************************************************)
C6_StartIsParentEnd ==
  \A f \in LiveFamilies :
    /\ f.segment.start = f.parent.end
    /\ f.parent \in {StubParent, StubParentOld} => f.segment.start = Vec(0, 0)

\* a live tree, after a frame, with a segment that branches
C6_Witness ==
  /\ now > 0
  /\ \E f \in LiveFamilies :
        /\ Len(f.segment.children) >= 2
        /\ \A c \in DOMAIN f.segment.children : f.segment.children[c].start = f.segment.end
        /\ f.segment.end /= f.segment.start

(***************************************************************************)
(* C4.  index.ts: the colour stops of every segment are a non-empty list   *)
(* of offsets in [0,1], ascending; the first offset is 0 when the parent   *)
(* has no colour stops (the root), and where it is > 0 the parent has a    *)
(* last colour stop and drawSegmentRecursive adds that colour at the first *)
(* offset before the segment's own stops.                                  *)
(***************************************************************************)
\* offsets as exact fractions: a < b, a <= b
FracLess(a, b) == a[1] * b[2] < b[1] * a[2]

C4_ColorStopsOrdered ==
  variant = "index" =>
    \A f \in LiveFamilies :
      \E stops \in {f.segment.colorStops} :
        /\ stops /= <<>>
        /\ \A i \in DOMAIN stops :
             stops[i].offset[2] > 0 /\ 0 <= stops[i].offset[1] /\ stops[i].offset[1] <= stops[i].offset[2]
        /\ \A i \in DOMAIN stops : \A j \in DOMAIN stops :
             i < j => FracLess(stops[i].offset, stops[j].offset)
        /\ f.parent.colorStops = <<>> => stops[1].offset[1] = 0
        /\ stops[1].offset[1] > 0 =>
             /\ f.parent.colorStops /= <<>>
             /\ \E g \in {Gradient(f.segment, f.parent)} :
                  /\ Len(g) = 2 * Len(stops)
                  /\ g[1].offset = stops[1].offset
                  /\ g[1].color = f.parent.colorStops[Len(f.parent.colorStops)].color
                  /\ g[2] = stops[1]

\* a child whose first stop lies past its start and is preceded by the parent's colour,
\* and a root whose first stop is at 0
C4_Witness ==
  /\ variant = "index"
  /\ now > 0
  /\ \E f \in LiveFamilies :
        /\ f.parent.colorStops /= <<>>
        /\ f.segment.colorStops[1].offset[1] > 0
        /\ Len(f.segment.colorStops) >= 2
        /\ Gradient(f.segment, f.parent)[1].color /= f.segment.colorStops[1].color
  /\ \E f \in LiveFamilies : f.parent = StubParent /\ f.segment.colorStops[1].offset[1] = 0

(***************************************************************************)
(* C10.  index.ts: the colour stops are colorSize apart along every path:  *)
(* within a segment, and from a parent's last stop across the joint to the *)
(* child's first stop.                                                     *)
(***************************************************************************)
\* the distance of a stop from the start of its segment
StopDistance(stop, segment) == (stop.offset[1] * segment.length) \div stop.offset[2]

C10_EvenColorSpacing ==
  variant = "index" =>
    \A f \in LiveFamilies :
      /\ \A i \in 1..(Len(f.segment.colorStops) - 1) :
           StopDistance(f.segment.colorStops[i + 1], f.segment)
             - StopDistance(f.segment.colorStops[i], f.segment) = colorSize
      /\ f.parent.colorStops /= <<>> =>
           (f.parent.length - StopDistance(f.parent.colorStops[Len(f.parent.colorStops)], f.parent))
             + StopDistance(f.segment.colorStops[1], f.segment) = colorSize

\* what holds of the code: within a segment the stops are colorSize apart
C10_SpacingWithinSegment ==
  variant = "index" =>
    \A f \in LiveFamilies :
      \A i \in 1..(Len(f.segment.colorStops) - 1) :
        StopDistance(f.segment.colorStops[i + 1], f.segment)
          - StopDistance(f.segment.colorStops[i], f.segment) = colorSize

(***************************************************************************)
(* C2.  drawSegmentRecursive (index.ts, part_000, part_001): for every     *)
(* stroke of every frame the drawn length is at most the length of the     *)
(* segment, the stroke ends on the segment, and the stroke is the whole    *)
(* segment whenever age >= length / growthPerSecond - in index.ts also     *)
(* under the cap by maxLeafDist / growthPerSecond, for tips and for        *)
(* segments with children.                                                 *)
(***************************************************************************)
C2_StrokeWithinSegment ==
  \A i \in DOMAIN trees : \E tree \in {trees[i]} :
    \A st \in TreeStrokes(tree) : \E segment \in {SegmentAt(tree.root, st.path)} :
      /\ st.age >= 0
      /\ st.growth[2] > 0 /\ 0 <= st.growth[1] /\ st.growth[1] <= st.growth[2]
      /\ (segment.length * st.growth[1]) \div st.growth[2] <= segment.length
      /\ Between(segment.start.x, st.to.x, segment.end.x)
      /\ Between(segment.start.y, st.to.y, segment.end.y)
      /\ st.age * GrowthRate >= segment.length * Mille =>
           st.growth[1] = st.growth[2] /\ st.to = segment.end

\* index.ts: a frame draws a segment with children whose age is past the cap, whole,
\* and a tip whose age is past the cap, whole, and another segment partly
C2_Witness ==
  /\ variant = "index"
  /\ now > 0
  /\ \E i \in DOMAIN trees : \E tree \in {trees[i]} : \E strokes \in {TreeStrokes(tree)} :
       /\ \E st \in strokes : \E segment \in {SegmentAt(tree.root, st.path)} :
            /\ segment.children /= <<>>
            /\ st.age * growthPerSecond > segment.maxLeafDist * Mille
            /\ st.to = segment.end
       /\ \E st \in strokes : \E segment \in {SegmentAt(tree.root, st.path)} :
            /\ segment.children = <<>>
            /\ st.age * growthPerSecond > segment.maxLeafDist * Mille
            /\ st.to = segment.end
  /\ \E i \in DOMAIN trees : \E tree \in {trees[i]} :
       \E st \in TreeStrokes(tree) : 0 < st.growth[1] /\ st.growth[1] < st.growth[2]

(***************************************************************************)
(* C7.  drawSegmentRecursive (all variants): whenever a segment is drawn,  *)
(* even partly, each of its ancestors is drawn whole in the same frame and *)
(* its age has reached its growth time; the age a child receives is its    *)
(* parent's age less the parent's growth time (length / growthPerSecond),  *)
(* so a child starts at length zero when its parent completes.             *)
(***************************************************************************)
C7_ChildrenAfterParent ==
  \A i \in DOMAIN trees : \E tree \in {trees[i]} : \E strokes \in {TreeStrokes(tree)} :
    \A st \in strokes :
      /\ \A n \in 0..(Len(st.path) - 1) :
           \E anc \in strokes : \E segment \in {SegmentAt(tree.root, SubSeq(st.path, 1, n))} :
             /\ anc.path = SubSeq(st.path, 1, n)
             /\ anc.to = segment.end
             /\ anc.growth[1] = anc.growth[2]
             /\ anc.age * GrowthRate >= segment.length * Mille
             /\ n = Len(st.path) - 1 =>
                  /\ st.age >= 0
                  /\ st.age * GrowthRate = anc.age * GrowthRate - segment.length * Mille
      /\ st.path = <<>> => st.age = now - tree.created

\* a frame draws a grandchild partly
C7_Witness ==
  /\ now > 0
  /\ \E i \in DOMAIN trees : \E tree \in {trees[i]} :
       \E st \in TreeStrokes(tree) :
         /\ Len(st.path) >= 2
         /\ 0 < st.growth[1]
         /\ st.growth[1] < st.growth[2]

(***************************************************************************)
(* C9.  part_000: a frame drops a tree only when every endpoint of every   *)
(* segment of it, at the scale and offset it is drawn with                 *)
(* (yScale * x + width * xPercent, yScale = 0.8 * height), is at or past   *)
(* the left edge (x <= 0).                                                 *)
(***************************************************************************)
C9_DrawnX(x, tree) == ((8 * height) \div 10) * x + width * tree.xPercent

C9_DroppedOnlyOffscreen ==
  [][variant = "part_000" =>
       \A i \in DOMAIN stateTrees' :
         \E tree \in {[stateTrees'[i] EXCEPT !.xPercent = @ - ShiftOld("part_000", now' - now)]} :
           (\A j \in DOMAIN trees' : trees'[j] /= tree) =>
             \A f \in Family(tree.root, StubParentOld) :
               /\ C9_DrawnX(f.segment.start.x, tree) <= 0
               /\ C9_DrawnX(f.segment.end.x, tree) <= 0]_vars

C3_BudgetDecreases ==
  genDepth' = genDepth + 1 =>
    /\ genBudget' < genBudget
    /\ genBudget' = genBudget - genLength'
       \/ genBudget' = ((genBudget - genLength') * 4) \div 10
    /\ genLength' <= genBudget

C3_TipHasNoChildren ==
  (genPhase = "call" /\ genLength' > genBudget) => (genPhase' = "done" /\ genDepth' = genDepth)

C3_DepthBounded ==
  /\ genBudget >= 0
  /\ genBudget + genDepth * GenMinLength <= genInitial
  /\ genDepth < MaxGenDepth

C3_Terminates ==
  /\ [][C3_BudgetDecreases /\ C3_TipHasNoChildren]_vars
  /\ [](genPhase \in {"call", "done"} => C3_DepthBounded)
  /\ <>(genPhase = "done")

\* a path that went as deep as the budget allows, and then returned
C3_Witness ==
  /\ genPhase = "done"
  /\ genDepth >= 10
  /\ (genDepth + 1) * GenMinLength > genInitial - GenMinLength
(***************************************************************************)
(* C11.  index.ts createTree: the cached extents of a tree are the         *)
(* smallest and the largest x over the start and end points of all its     *)
(* segments, widened by xPadding, so every endpoint lies within            *)
(* [minX, maxX]; and every segment's maxLeafDist is its own length plus    *)
(* the largest maxLeafDist among its children (0 without children).        *)
(***************************************************************************)
\* the x coordinates of the endpoints of the segments at and below `segment`
C11_EndpointXs(segment) ==
  UNION { {f.segment.start.x, f.segment.end.x} : f \in Family(segment, StubParent) }

C11_ExtentsAggregate ==
  variant = "index" =>
    \A i \in DOMAIN stateTrees :
      \E tree \in {stateTrees[i]} :
      \E xs \in {C11_EndpointXs(tree.root)} :
        /\ \A x \in xs : tree.minX + xPadding <= x /\ x <= tree.maxX - xPadding
        /\ tree.minX + xPadding \in xs
        /\ tree.maxX - xPadding \in xs
        /\ \A f \in Family(tree.root, StubParent) :
             \E dists \in {{f.segment.children[c].maxLeafDist : c \in DOMAIN f.segment.children}} :
               /\ f.segment.maxLeafDist >= f.segment.length
               /\ \A d \in dists : f.segment.maxLeafDist >= f.segment.length + d
               /\ dists = {} => f.segment.maxLeafDist = f.segment.length
               /\ dists /= {} => f.segment.maxLeafDist - f.segment.length \in dists

\* a tree whose leftmost endpoint is on a side branch, not below the
\* continuation child of the segment that branches
C11_Witness ==
  /\ variant = "index"
  /\ \E i \in DOMAIN stateTrees :
       \E f \in Family(stateTrees[i].root, StubParent) :
         /\ Len(f.segment.children) >= 2
         /\ \E x \in C11_EndpointXs(f.segment.children[2]) :
              /\ \A y \in C11_EndpointXs(f.segment.children[1]) : x < y
              /\ x = stateTrees[i].minX + xPadding
(***************************************************************************)
(* C12.  index.ts createSegment: every leaf of every generated segment     *)
(* lies on its segment, that is, its segmentPercent is within [0, 1], and  *)
(* the leaves of a segment are in strictly increasing segmentPercent       *)
(* order.  segmentPercent is the pair <<segmentOffset, length>>.           *)
(***************************************************************************)
C12_Segments ==
  UNION { {f.segment : f \in Family(stateTrees[i].root, StubParent)} : i \in DOMAIN stateTrees }

\* the leaves of a segment are in strictly increasing order and none is past the end
C12_LeavesOrdered ==
  variant = "index" =>
    \A segment \in C12_Segments :
      \A j \in DOMAIN segment.leaves :
        /\ segment.leaves[j].segmentPercent[2] = segment.length
        /\ segment.leaves[j].segmentPercent[1] <= segment.length
        /\ j > 1 => segment.leaves[j].segmentPercent[1] > segment.leaves[j - 1].segmentPercent[1]

C12_LeavesOnSegment ==
  variant = "index" =>
    \A segment \in C12_Segments :
      \A j \in DOMAIN segment.leaves :
        /\ 0 <= segment.leaves[j].segmentPercent[1]
        /\ segment.leaves[j].segmentPercent[1] <= segment.leaves[j].segmentPercent[2]
        /\ j > 1 => segment.leaves[j].segmentPercent[1] > segment.leaves[j - 1].segmentPercent[1]
(***************************************************************************)
(* C13.  In every variant spawning never stops: from every reachable       *)
(* state, the ones with an empty live list included, some later frame      *)
(* appends a new tree, so the live list is never empty for good.  A frame  *)
(* that appends leaves a newest tree created at time.now; the states       *)
(* looked at are those with a frame still to come before MaxTime.          *)
(***************************************************************************)
C13_FrameLeft == \E delta \in Deltas : now + delta <= MaxTime

\* the frame that led here appended a tree (createTree(time.now, 1))
C13_Spawned == stateTrees /= <<>> /\ Last(stateTrees).created = now

C13_SpawningNeverStops ==
  [](trees = <<>> /\ C13_FrameLeft => <>(now > 0 /\ C13_Spawned))

\* the same, for index.ts alone
C13_SpawningNeverStops_index ==
  [](variant = "index" /\ trees = <<>> /\ C13_FrameLeft => <>(now > 0 /\ C13_Spawned))

\* index.ts: the live list is empty and a frame is still to come
C13_EmptyList_index == variant = "index" /\ trees = <<>> /\ C13_FrameLeft

\* part_000, part_001: a frame that starts from the empty list appends
\* nothing and ends with the empty list, whatever time.now and time.delta are
C13_EmptyStaysEmpty_old ==
  [][variant /= "index" /\ trees = <<>> => stateTrees' = <<>> /\ trees' = <<>>]_vars
====
